---- MODULE Spec2Model ----
(***************************************************************************)
(* Transaction categorization pipeline of lorcan17/finances.               *)
(*                                                                         *)
(*   - the three provider classes' categorize_transactions                 *)
(*     (categorizer/transaction_categorizer.py, categorizer/utils/         *)
(*     prompts.py),                                                        *)
(*   - the two prepare_categorized_data_for_sheet functions                *)
(*     (categorizer/utils/data_prep.py and the older one in                *)
(*     categorizer/transaction_categorizer.py),                            *)
(*   - main() of categorizer/transaction_categorizer.py,                   *)
(*   - GoogleSheetsClient of utils/google_utils.py: its cached service     *)
(*     and its export_sheet_range / update_sheet_range,                    *)
(*   - a provider object called several times in a row.                    *)
(*                                                                         *)
(* Text is a sequence of characters; a JSON object literal is one          *)
(* character of the text (its content is looked up in RecordOf), so that   *)
(* str.strip and json.loads are computed, not assumed.                     *)
(***************************************************************************)
EXTENDS Integers, Sequences, FiniteSets, TLC

VARIABLES
    scenario,                 \* which entry point is exercised
    \* ---- one call of categorize_transactions per provider class ----
    transactions_data,        \* the batch handed to the provider
    backend,                  \* what the LLM backend does with a request
    outcome,                  \* per class: how the call ended
    \* ---- one call of prepare_categorized_data_for_sheet per function ----
    r_transactions,           \* transactions_df: the original rows' descriptions
    r_results,                \* categorized_transactions
    r_outcome,                \* per function: how the call ended
    \* ---- the data's shape, in a call of either and in a run of main() ----
    has_description_column,   \* transactions_df has the description column
    result_keys,              \* the key names the result records use
    \* ---- one run of main() ----
    pc,                       \* position of main()
    sheet,                    \* descriptions of the transactions range's rows
    written,                  \* descriptions of the rows last written back
    transactions_df,          \* rows read from the store
    categorized_transactions, \* what categorize_transactions gave main()
    provider_calls,           \* requests main()'s provider sent to the backend
    reconcile_calls,          \* calls of prepare_categorized_data_for_sheet
    updated_df,               \* the reconciled rows
    sheet_writes,             \* update_sheet_range calls that wrote the range
    log,                      \* messages main() logged
    escaped,                  \* an exception left main()
    \* ---- one GoogleSheetsClient: main()'s, or one called directly ----
    service,                  \* self.service: the cached authenticated service
    service_builds,           \* times build() gave a service that was cached
    init_attempts,            \* times _get_service attempted initialization
    client_calls,             \* export_/update_sheet_range calls made so far
    last_call,                \* how the latest of those calls ended
    \* ---- one provider object called several times ----
    p_class,                  \* the object's class
    p_self,                   \* its fields
    p_calls                   \* the calls made on it, in order

provider_vars == <<transactions_data, backend, outcome>>
reconcile_vars == <<r_transactions, r_results, r_outcome>>
shape_vars == <<has_description_column, result_keys>>
main_vars == <<pc, sheet, written, transactions_df, categorized_transactions, provider_calls,
               reconcile_calls, updated_df, sheet_writes, log, escaped>>
client_vars == <<service, service_builds, init_attempts, client_calls, last_call>>
session_vars == <<p_class, p_self, p_calls>>
vars == <<scenario, provider_vars, reconcile_vars, shape_vars, main_vars, client_vars,
          session_vars>>

----------------------------------------------------------------------------
(* Bounds *)

\* most categorize_transactions calls made on one provider object
MaxSession == 2

\* most export_/update_sheet_range calls made on a client called directly
MaxCalls == 3

\* longest backend response text, in characters
MaxTextLen == 3
\* most transactions in a batch handed to a provider directly
MaxBatch == 1
\* most rows of the transactions sheet
MaxRows == 2
\* most records in a result list
MaxResults == 2

SeqsUpTo(S, n) == UNION {[1..k -> S] : k \in 0..n}

----------------------------------------------------------------------------
(* Text *)

\* characters str.strip() removes: " " is also JSON whitespace, "\f" (form
\* feed) is whitespace to str.strip() only
Whitespace == {" ", "\f"}
JsonWhitespace == {" "}

\* JSON object literals that may occur in a response
ObjectLiterals == {"o1", "o2", "o3"}

\* "7" is a number literal, "n" the literal null, "x" a character no JSON
\* text starts with
Chars == Whitespace \cup ObjectLiterals \cup {"[", "]", ",", "7", "n", "x"}

RECURSIVE LStrip(_)
LStrip(s) ==
    IF s # <<>> /\ Head(s) \in Whitespace THEN LStrip(Tail(s)) ELSE s

RECURSIVE RStrip(_)
RStrip(s) ==
    IF s # <<>> /\ s[Len(s)] \in Whitespace
    THEN RStrip(SubSeq(s, 1, Len(s) - 1))
    ELSE s

\* str.strip()
Strip(s) == LStrip(RStrip(s))

----------------------------------------------------------------------------
(* JSON values and json.loads *)

None == [t |-> "None", items |-> <<>>, id |-> ""]
JList(items) == [t |-> "list", items |-> items, id |-> ""]
JObject(o) == [t |-> "dict", items |-> <<>>, id |-> o]
JNumber(n) == [t |-> "int", items |-> <<>>, id |-> n]
EmptyList == JList(<<>>)

\* position of the first character at or after i that is not JSON whitespace
RECURSIVE SkipWs(_, _)
SkipWs(s, i) ==
    IF i <= Len(s) /\ s[i] \in JsonWhitespace THEN SkipWs(s, i + 1) ELSE i

ParseFail == [ok |-> FALSE, val |-> None, next |-> 0]
ParseOk(v, n) == [ok |-> TRUE, val |-> v, next |-> n]

\* the JSON scanner: one value starting at position i
RECURSIVE ParseValue(_, _)
RECURSIVE ParseElems(_, _, _)
ParseValue(s, i) ==
    IF i > Len(s) THEN ParseFail
    ELSE IF s[i] \in ObjectLiterals THEN ParseOk(JObject(s[i]), i + 1)
    ELSE IF s[i] = "7" THEN ParseOk(JNumber(s[i]), i + 1)
    ELSE IF s[i] = "n" THEN ParseOk(None, i + 1)
    ELSE IF s[i] = "["
         THEN LET j == SkipWs(s, i + 1)
              IN  IF j <= Len(s) /\ s[j] = "]"
                  THEN ParseOk(EmptyList, j + 1)
                  ELSE ParseElems(s, j, <<>>)
    ELSE ParseFail

ParseElems(s, i, acc) ==
    LET v == ParseValue(s, i)
    IN  IF ~v.ok THEN ParseFail
        ELSE LET k == SkipWs(s, v.next)
             IN  IF k > Len(s) THEN ParseFail
                 ELSE IF s[k] = "]" THEN ParseOk(JList(Append(acc, v.val)), k + 1)
                 ELSE IF s[k] = ","
                      THEN ParseElems(s, SkipWs(s, k + 1), Append(acc, v.val))
                 ELSE ParseFail

\* as json_loads, of an array only its first element kept
json_loads_FirstOnly(s) ==
    LET v == ParseValue(s, SkipWs(s, 1))
    IN  IF v.ok /\ SkipWs(s, v.next) = Len(s) + 1
        THEN [ok |-> TRUE,
              val |-> IF v.val.t = "list" /\ Len(v.val.items) > 1
                      THEN JList(<<v.val.items[1]>>) ELSE v.val]
        ELSE [ok |-> FALSE, val |-> None]

\* json.loads(s): ok = FALSE stands for json.JSONDecodeError
json_loads(s) ==
    LET v == ParseValue(s, SkipWs(s, 1))
    IN  IF v.ok /\ SkipWs(s, v.next) = Len(s) + 1
        THEN [ok |-> TRUE, val |-> v.val]
        ELSE [ok |-> FALSE, val |-> None]

\* json.dumps of a list of object literals (separator ", ")
RECURSIVE DumpItems(_)
DumpItems(os) ==
    IF os = <<>> THEN <<>>
    ELSE IF Len(os) = 1 THEN <<os[1]>>
    ELSE <<os[1], ",", " ">> \o DumpItems(Tail(os))

json_dumps(os) == <<"[">> \o DumpItems(os) \o <<"]">>

----------------------------------------------------------------------------
(* The provider classes' categorize_transactions *)

Descriptions == {"W", "S"}

Classes == {"TransactionCategorizer", "OpenAITransactionCategorizer",
            "AnthropicTransactionCategorizer"}

\* What happens to the request of one call.  fault = "build": serialising
\* the request raises (json.dumps of a batch holding a value JSON cannot
\* encode, such as a Decimal amount; for TransactionCategorizer also
\* build_categorization_prompt re-raising); "send": the network call raises
\* an Exception; "read": the response has no text where the code looks for
\* it (response.content is not a str, response.content is empty);
\* "none": the backend answers with `text`.
Faults == {"build", "send", "read"}
Fault(f) == [fault |-> f, text |-> <<>>]
Answer(text) == [fault |-> "none", text |-> text]

\* How a call ended: kind is "return" or "raise" ("pending": not called);
\* sent lists the batches the backend was invoked with during the call.
Pending == [kind |-> "pending", value |-> None, sent |-> <<>>]
Return(v, sent) == [kind |-> "return", value |-> v, sent |-> sent]
Raise(sent) == [kind |-> "raise", value |-> None, sent |-> sent]

\* as OpenAICategorize, the JSONDecodeError handler returning None
OpenAICategorize_DecodeErrorNone(batch, env) ==
    IF Len(batch) = 0 THEN Return(None, <<>>)
    ELSE IF env.fault = "build" THEN Raise(<<>>)
    ELSE IF env.fault = "send" THEN Return(EmptyList, <<batch>>)
    ELSE IF env.fault = "read" THEN Return(EmptyList, <<batch>>)
    ELSE LET raw_output == Strip(env.text)
             parsed == json_loads(raw_output)
         IN  IF parsed.ok THEN Return(parsed.val, <<batch>>)
             ELSE Return(None, <<batch>>)

\* OpenAITransactionCategorizer.categorize_transactions
OpenAICategorize(batch, env) ==
    IF Len(batch) = 0 THEN Return(None, <<>>)
    \* the messages are built before the try block
    ELSE IF env.fault = "build" THEN Raise(<<>>)
    ELSE IF env.fault = "send" THEN Return(EmptyList, <<batch>>)
    ELSE IF env.fault = "read" THEN Return(EmptyList, <<batch>>)
    ELSE LET raw_output == Strip(env.text)
             parsed == json_loads(raw_output)
         IN  IF parsed.ok THEN Return(parsed.val, <<batch>>)
             ELSE Return(EmptyList, <<batch>>)

\* as AnthropicCategorize, the outer handler re-raising
AnthropicCategorize_Reraise(batch, env) ==
    IF Len(batch) = 0 THEN Return(None, <<>>)
    ELSE IF env.fault = "build" THEN Raise(<<>>)
    ELSE IF env.fault = "send" THEN Raise(<<batch>>)
    ELSE IF env.fault = "read" THEN Raise(<<batch>>)
    ELSE LET raw_output == Strip(env.text)
             parsed == json_loads(raw_output)
         IN  IF parsed.ok THEN Return(parsed.val, <<batch>>)
             ELSE Return(EmptyList, <<batch>>)

\* AnthropicTransactionCategorizer.categorize_transactions
AnthropicCategorize(batch, env) ==
    IF Len(batch) = 0 THEN Return(None, <<>>)
    \* json.dumps is an argument of messages.create, inside the try block
    ELSE IF env.fault = "build" THEN Return(EmptyList, <<>>)
    ELSE IF env.fault = "send" THEN Return(EmptyList, <<batch>>)
    ELSE IF env.fault = "read" THEN Return(EmptyList, <<batch>>)
    ELSE LET raw_output == Strip(env.text)
             parsed == json_loads(raw_output)
         IN  IF parsed.ok THEN Return(parsed.val, <<batch>>)
             ELSE Return(EmptyList, <<batch>>)

\* as LegacyCategorize, asking the backend again after a parse failure
LegacyCategorize_Retry(batch, env) ==
    IF env.fault = "build" THEN Raise(<<>>)
    ELSE IF env.fault = "send" THEN Return(EmptyList, <<batch>>)
    ELSE IF env.fault = "read" THEN Return(EmptyList, <<batch>>)
    ELSE LET raw_output == Strip(env.text)
             parsed == json_loads(raw_output)
         IN  IF parsed.ok THEN Return(parsed.val, <<batch>>)
             ELSE Return(EmptyList, <<batch, batch>>)

\* TransactionCategorizer.categorize_transactions: no test of the batch's
\* length; the prompt and the messages are built before the try block
LegacyCategorize(batch, env) ==
    IF env.fault = "build" THEN Raise(<<>>)
    ELSE IF env.fault = "send" THEN Return(EmptyList, <<batch>>)
    ELSE IF env.fault = "read" THEN Return(EmptyList, <<batch>>)
    ELSE LET raw_output == Strip(env.text)
             parsed == json_loads(raw_output)
         IN  IF parsed.ok THEN Return(parsed.val, <<batch>>)
             ELSE Return(EmptyList, <<batch>>)

Categorize(class, batch, env) ==
    CASE class = "OpenAITransactionCategorizer" -> OpenAICategorize(batch, env)
      [] class = "AnthropicTransactionCategorizer" -> AnthropicCategorize(batch, env)
      [] OTHER -> LegacyCategorize(batch, env)

\* the fields __init__ leaves in a provider object: the client handle
\* (self.llm, self.client), and the model name and temperature it was
\* constructed with (held by self.llm in the two OpenAI classes)
NewProvider(class) ==
    [client |-> "handle",
     model |-> CASE class = "OpenAITransactionCategorizer" -> "gpt-3.5-turbo"
                 [] class = "AnthropicTransactionCategorizer" -> "claude-3-haiku-20240307"
                 [] OTHER -> "gpt-4o",
     temperature |-> 0]

NoProvider == [client |-> "", model |-> "", temperature |-> 0]

\* as CategorizeOn, the client handle dropped by a call that fails and
\* looked at by the calls after it
CategorizeOn_DropsClient(class, self, batch, env) ==
    LET r == IF self.client = "handle" THEN Categorize(class, batch, env)
             ELSE Categorize(class, batch, Fault("send"))
    IN  [outcome |-> r,
         self |-> IF r.kind = "raise" \/ r.value = EmptyList
                  THEN [self EXCEPT !.client = "closed"] ELSE self,
         batch |-> batch]

\* one call of categorize_transactions on the object self: how it ends, and
\* the object's fields and the batch as the call leaves them (no statement
\* of the three methods assigns to self or changes transactions_data)
CategorizeOn(class, self, batch, env) ==
    [outcome |-> Categorize(class, batch, env), self |-> self, batch |-> batch]

----------------------------------------------------------------------------
(* prepare_categorized_data_for_sheet *)

\* the content of each object literal: description, category, subcategory
RecordOf(o) ==
    CASE o = "o1" -> [desc |-> "W", cat |-> <<"F">>, sub |-> <<" ", "G", " ">>]
      [] o = "o2" -> [desc |-> "S", cat |-> <<"T", " ">>, sub |-> <<"G">>]
      [] OTHER    -> [desc |-> "W", cat |-> <<"F">>, sub |-> <<"\f", "R">>]

\* The key names of the result records.  "underscore": _Description,
\* _Category, _Subcategory, _Confidence, _Reasoning (the prompt's example);
\* "capital": Description, Category, ...; "lower": description, category,
\* ... (the records of test_categorizer.py).
KeyStyles == {"underscore", "capital", "lower"}

NaN == <<"nan">>
NoColumn == <<"absent">>

\* as PredictedCategory, the fields joined as they came
PredictedCategory_NoStrip(o) ==
    RecordOf(o).cat \o <<":", " ">> \o RecordOf(o).sub

\* category.str.strip() + ": " + subcategory.str.strip()
PredictedCategory(o) ==
    Strip(RecordOf(o).cat) \o <<":", " ">> \o Strip(RecordOf(o).sub)

\* pd.DataFrame(categorized_transactions) gives a table of records: the
\* value is a list whose items are all dicts (an empty list gives a table
\* without columns, which fails at the first column lookup)
IsRecordList(v) ==
    /\ v.t = "list"
    /\ v.items # <<>>
    /\ \A i \in 1..Len(v.items) : v.items[i].t = "dict"

RecordIds(v) == [i \in 1..Len(v.items) |-> v.items[i].id]

\* the result records whose description is d, in order
MatchesOf(d, recs) == SelectSeq(recs, LAMBDA o : RecordOf(o).desc = d)

\* pd.merge(transactions_df, categorized_df, how='left'): every left row, in
\* order, once per matching right row, or once with NaN where none matches
RECURSIVE LeftMerge(_, _)
LeftMerge(rows, recs) ==
    IF rows = <<>> THEN <<>>
    ELSE LET m == MatchesOf(Head(rows), recs)
             joined == IF m = <<>>
                       THEN <<[desc |-> Head(rows), src |-> "nan"]>>
                       ELSE [i \in 1..Len(m) |-> [desc |-> Head(rows), src |-> m[i]]]
         IN  joined \o LeftMerge(Tail(rows), recs)

\* How a call ended.  rows: the returned table; error: the exception's type
\* ("Exception": one raised by pandas on a value that is no list of
\* records, its exact type depending on the value); increased_by and named:
\* the number and the descriptions that the exception's message carries;
\* warned: the uncategorized_count of the logged warning, 0 when none is
\* logged.
NotCalled == [kind |-> "pending", rows |-> <<>>, error |-> "", increased_by |-> 0,
              named |-> {}, warned |-> 0]
Returned(rows, warned) == [kind |-> "return", rows |-> rows, error |-> "",
                           increased_by |-> 0, named |-> {}, warned |-> warned]
Raised(error, n, named) == [kind |-> "raise", rows |-> <<>>, error |-> error,
                            increased_by |-> n, named |-> named, warned |-> 0]

\* column.isna().sum() of a column given as the sequence of its values
IsNaSum(column) == Cardinality({i \in 1..Len(column) : column[i] = NaN})

\* as DataPrepReconcile, a row without a predicted label being an error
DataPrepReconcile_UncategorizedFatal(rows, columns_ok, results, keys) ==
    IF ~IsRecordList(results) THEN Raised("Exception", 0, {})
    ELSE IF keys # "underscore" THEN Raised("KeyError", 0, {})
    ELSE IF ~columns_ok THEN Raised("KeyError", 0, {})
    ELSE LET merged == LeftMerge(rows, RecordIds(results))
             result_df == [i \in 1..Len(merged) |->
                             [desc |-> merged[i].desc,
                              src |-> merged[i].src,
                              predicted |-> IF merged[i].src = "nan" THEN NaN
                                            ELSE PredictedCategory(merged[i].src)]]
             uncategorized_count ==
                 IsNaSum([i \in 1..Len(result_df) |-> result_df[i].predicted])
         IN  IF Len(result_df) > Len(rows)
             THEN Raised("ValueError", Len(result_df) - Len(rows), {})
             ELSE IF uncategorized_count > 0
             THEN Raised("ValueError", 0, {})
             ELSE Returned(result_df, 0)

\* utils/data_prep.py: prepare_categorized_data_for_sheet
DataPrepReconcile(rows, columns_ok, results, keys) ==
    IF ~IsRecordList(results) THEN Raised("Exception", 0, {})
    ELSE IF keys # "underscore" THEN Raised("KeyError", 0, {})
    ELSE IF ~columns_ok THEN Raised("KeyError", 0, {})
    ELSE LET original_row_count == Len(rows)
             merged == LeftMerge(rows, RecordIds(results))
             result_df == [i \in 1..Len(merged) |->
                             [desc |-> merged[i].desc,
                              src |-> merged[i].src,
                              predicted |-> IF merged[i].src = "nan" THEN NaN
                                            ELSE PredictedCategory(merged[i].src)]]
         IN  IF Len(result_df) > original_row_count
             THEN Raised("ValueError", Len(result_df) - original_row_count, {})
             ELSE Returned(result_df,
                           IsNaSum([i \in 1..Len(result_df) |-> result_df[i].predicted]))

\* transaction_categorizer.py: prepare_categorized_data_for_sheet.  Joins on
\* 'Description' (after renaming 'description') and reads 'Category' of the
\* merged table, which records keyed in lower case do not give it; no row
\* count is compared, no label derived.
LegacyReconcile(rows, columns_ok, results, keys) ==
    IF ~IsRecordList(results) THEN Raised("Exception", 0, {})
    ELSE IF keys = "underscore" THEN Raised("KeyError", 0, {})
    ELSE IF ~columns_ok THEN Raised("KeyError", 0, {})
    ELSE LET merged == LeftMerge(rows, RecordIds(results))
             result_df == [i \in 1..Len(merged) |->
                             [desc |-> merged[i].desc,
                              src |-> merged[i].src,
                              predicted |-> NoColumn]]
             category == [i \in 1..Len(merged) |->
                            IF merged[i].src = "nan" THEN NaN
                            ELSE RecordOf(merged[i].src).cat]
         IN  IF keys = "lower" THEN Raised("KeyError", 0, {})
             ELSE Returned(result_df, IsNaSum(category))

Functions == {"data_prep", "transaction_categorizer"}

Reconcile(f, rows, columns_ok, results, keys) ==
    IF f = "data_prep" THEN DataPrepReconcile(rows, columns_ok, results, keys)
    ELSE LegacyReconcile(rows, columns_ok, results, keys)

----------------------------------------------------------------------------
(* GoogleSheetsClient of utils/google_utils.py *)

\* self.service = None of __init__
NoService == "None"
\* the Resource that build('sheets', 'v4', ...) gives
TheService == "service"

\* how the Sheets API answers .execute(): it answers, raises HttpError, or
\* raises another exception (the transport's)
StoreOutcomes == {"ok", "HttpError", "Exception"}

\* as GetService, the cached service never looked at
GetService_Rebuild(svc, init_ok) ==
    IF init_ok
    THEN [kind |-> "return", service |-> TheService, built |-> 1, attempted |-> 1]
    ELSE [kind |-> "raise", service |-> NoService, built |-> 0, attempted |-> 1]

\* _get_service: init_ok is whether decrypting the credentials and building
\* the service succeed, were they attempted
GetService(svc, init_ok) ==
    IF svc = NoService
    THEN IF init_ok
         THEN [kind |-> "return", service |-> TheService, built |-> 1, attempted |-> 1]
         ELSE [kind |-> "raise", service |-> svc, built |-> 0, attempted |-> 1]
    ELSE [kind |-> "return", service |-> svc, built |-> 0, attempted |-> 0]

\* how a call of export_sheet_range or update_sheet_range ended: reached is
\* whether the request got to the Sheets API
ClientOutcome(kind, error, g, reached) ==
    [kind |-> kind, error |-> error, service |-> g.service, built |-> g.built,
     attempted |-> g.attempted, reached |-> reached]

\* as ExportSheetRange, a failed read answered with an empty DataFrame
ExportSheetRange_Recover(svc, init_ok, api) ==
    LET g == GetService(svc, init_ok)
    IN  ClientOutcome("return", "", g, g.kind = "return")

\* export_sheet_range: both except clauses log and re-raise
ExportSheetRange(svc, init_ok, api) ==
    LET g == GetService(svc, init_ok)
    IN  IF g.kind = "raise" THEN ClientOutcome("raise", "Exception", g, FALSE)
        ELSE IF api # "ok" THEN ClientOutcome("raise", api, g, TRUE)
        ELSE ClientOutcome("return", "", g, TRUE)

\* update_sheet_range: the body is built, then as export_sheet_range
UpdateSheetRange(svc, init_ok, api) ==
    LET g == GetService(svc, init_ok)
    IN  IF g.kind = "raise" THEN ClientOutcome("raise", "Exception", g, FALSE)
        ELSE IF api # "ok" THEN ClientOutcome("raise", api, g, TRUE)
        ELSE ClientOutcome("return", "", g, TRUE)

NoCall == [op |-> "none", kind |-> "pending", error |-> "", built |-> 0,
           attempted |-> 0, reached |-> FALSE, init_ok |-> FALSE, api |-> "ok",
           service_before |-> NoService]

\* what a call r of operation op leaves in the client and in the record of
\* the latest call
ClientStep(op, r, init_ok, api) ==
    /\ service' = r.service
    /\ service_builds' = service_builds + r.built
    /\ init_attempts' = init_attempts + r.attempted
    /\ client_calls' = client_calls + 1
    /\ last_call' = [op |-> op, kind |-> r.kind, error |-> r.error,
                     built |-> r.built, attempted |-> r.attempted,
                     reached |-> r.reached, init_ok |-> init_ok, api |-> api,
                     service_before |-> service]

----------------------------------------------------------------------------
(* main() of transaction_categorizer.py *)

\* as Truthy, the test being `is not None`
Truthy_IsNotNone(v) == v.t # "None"

\* bool(value): what `if categorized_transactions:` tests
Truthy(v) ==
    IF v.t = "list" THEN v.items # <<>> ELSE v.t # "None"

\* `except Exception` of main(): the exception is logged and main() returns
ExceptHandler == [log |-> {"pipeline_error"}, escaped |-> FALSE]

\* the backend's answers in a run of main(): serialised result lists, bare
\* and with whitespace around them, a sentence that is no JSON, a lone
\* object, a lone number, null
MainTexts ==
    {json_dumps(os) : os \in SeqsUpTo(ObjectLiterals, MaxResults)}
        \cup {<<"\f", " ">> \o json_dumps(os) \o <<" ", "\f">> :
                  os \in SeqsUpTo(ObjectLiterals, MaxResults)}
        \cup {<<"x">>, <<"o1">>, <<"7">>, <<"n">>}

----------------------------------------------------------------------------
(* Initial states: one entry point is exercised, the others stay unused *)

ProviderUnused ==
    /\ transactions_data = <<>>
    /\ outcome = [c \in Classes |-> Pending]

ReconcileUnused ==
    /\ r_transactions = <<>>
    /\ r_results = None
    /\ r_outcome = [f \in Functions |-> NotCalled]

MainUnused ==
    /\ pc = "unused"
    /\ sheet = <<>>
    /\ written = <<>>
    /\ transactions_df = <<>>
    /\ categorized_transactions = None
    /\ provider_calls = <<>>
    /\ reconcile_calls = 0
    /\ updated_df = <<>>
    /\ sheet_writes = 0
    /\ log = {}
    /\ escaped = FALSE

SessionUnused ==
    /\ p_class = "unused"
    /\ p_self = NoProvider
    /\ p_calls = <<>>

\* the batches and the backend's answers in a series of calls on one object
SessionBatches == SeqsUpTo({"W"}, MaxBatch)
SessionBackends ==
    {Fault(f) : f \in Faults}
        \cup {Answer(t) : t \in {<<"[", "o1", "]">>, <<"[", "]">>, <<"x">>}}

\* GoogleSheetsClient.__init__: nothing cached, nothing called yet
ClientFresh ==
    /\ service = NoService
    /\ service_builds = 0
    /\ init_attempts = 0
    /\ client_calls = 0
    /\ last_call = NoCall

\* the result lists handed to prepare_categorized_data_for_sheet directly
ResultValues ==
    {JList([i \in 1..Len(os) |-> JObject(os[i])]) :
        os \in SeqsUpTo(ObjectLiterals, MaxResults)}
        \cup {None, JObject("o1"), JList(<<JNumber("7")>>)}

InitProvider ==
    /\ scenario = "provider"
    /\ transactions_data \in SeqsUpTo(Descriptions, MaxBatch)
    /\ backend \in {Fault(f) : f \in Faults}
                    \cup {Answer(t) : t \in SeqsUpTo(Chars, MaxTextLen)}
    /\ outcome = [c \in Classes |-> Pending]
    /\ has_description_column = TRUE
    /\ result_keys = "underscore"
    /\ ReconcileUnused
    /\ MainUnused
    /\ ClientFresh
    /\ SessionUnused

InitReconcile ==
    /\ scenario = "reconcile"
    /\ r_transactions \in SeqsUpTo(Descriptions, MaxRows)
    /\ r_results \in ResultValues
    /\ r_outcome = [f \in Functions |-> NotCalled]
    /\ has_description_column \in BOOLEAN
    /\ result_keys \in KeyStyles
    /\ backend = Fault("send")
    /\ ProviderUnused
    /\ MainUnused
    /\ ClientFresh
    /\ SessionUnused

InitMain ==
    /\ scenario = "main"
    /\ pc = "start"
    /\ sheet \in SeqsUpTo(Descriptions, MaxRows)
    /\ written = <<>>
    /\ backend \in {Fault(f) : f \in Faults} \cup {Answer(t) : t \in MainTexts}
    /\ has_description_column \in BOOLEAN
    /\ result_keys \in KeyStyles
    /\ transactions_df = <<>>
    /\ categorized_transactions = None
    /\ provider_calls = <<>>
    /\ reconcile_calls = 0
    /\ updated_df = <<>>
    /\ sheet_writes = 0
    /\ log = {}
    /\ escaped = FALSE
    /\ ProviderUnused
    /\ ReconcileUnused
    /\ ClientFresh
    /\ SessionUnused

\* a GoogleSheetsClient constructed and then called directly
InitClient ==
    /\ scenario = "client"
    /\ ClientFresh
    /\ SessionUnused
    /\ backend = Fault("send")
    /\ has_description_column = TRUE
    /\ result_keys = "underscore"
    /\ ProviderUnused
    /\ ReconcileUnused
    /\ MainUnused

\* a provider object constructed and then called several times
InitSession ==
    /\ scenario = "session"
    /\ p_class \in Classes
    /\ p_self = NewProvider(p_class)
    /\ p_calls = <<>>
    /\ backend = Fault("send")
    /\ has_description_column = TRUE
    /\ result_keys = "underscore"
    /\ ProviderUnused
    /\ ReconcileUnused
    /\ MainUnused
    /\ ClientFresh

Init == InitProvider \/ InitReconcile \/ InitMain \/ InitClient \/ InitSession

----------------------------------------------------------------------------
(* Calls of categorize_transactions *)

Call(c) ==
    /\ scenario = "provider"
    /\ outcome[c].kind = "pending"
    /\ outcome' = [outcome EXCEPT ![c] = Categorize(c, transactions_data, backend)]
    /\ UNCHANGED <<scenario, transactions_data, backend, reconcile_vars, shape_vars,
                   main_vars, client_vars, session_vars>>

CallTransactionCategorizer == Call("TransactionCategorizer")
CallOpenAI == Call("OpenAITransactionCategorizer")
CallAnthropic == Call("AnthropicTransactionCategorizer")

(* Calls of prepare_categorized_data_for_sheet *)

Prepare(f) ==
    /\ scenario = "reconcile"
    /\ r_outcome[f].kind = "pending"
    /\ r_outcome' = [r_outcome EXCEPT ![f] =
            Reconcile(f, r_transactions, has_description_column, r_results, result_keys)]
    /\ UNCHANGED <<scenario, r_transactions, r_results, provider_vars, shape_vars,
                   main_vars, client_vars, session_vars>>

PrepareDataPrep == Prepare("data_prep")
PrepareLegacy == Prepare("transaction_categorizer")

----------------------------------------------------------------------------
(* main(): the steps of its try block *)

\* an exception reaches `except Exception` of main()
Fail ==
    /\ pc' = "done"
    /\ log' = log \cup ExceptHandler.log
    /\ escaped' = ExceptHandler.escaped

\* google_client.export_sheet_range of the categories range
LoadCategories ==
    /\ scenario = "main" /\ pc = "start"
    /\ \E init_ok \in BOOLEAN, api \in StoreOutcomes :
          LET r == ExportSheetRange(service, init_ok, api)
          IN  /\ ClientStep("export", r, init_ok, api)
              /\ IF r.kind = "return"
                 THEN pc' = "categories_loaded" /\ UNCHANGED <<log, escaped>>
                 ELSE Fail
    /\ UNCHANGED <<scenario, session_vars, provider_vars, reconcile_vars, shape_vars, sheet,
                   written, transactions_df, categorized_transactions,
                   provider_calls, reconcile_calls, updated_df, sheet_writes>>

\* google_client.export_sheet_range of the transactions range;
\* settings_ok: settings has the names the range is composed of
LoadTransactions ==
    /\ scenario = "main" /\ pc = "categories_loaded"
    /\ \E settings_ok \in BOOLEAN, init_ok \in BOOLEAN, api \in StoreOutcomes :
          LET r == ExportSheetRange(service, init_ok, api)
          IN  IF ~settings_ok
              THEN Fail /\ UNCHANGED <<transactions_df, client_vars>>
              ELSE /\ ClientStep("export", r, init_ok, api)
                   /\ IF r.kind = "return"
                      THEN /\ pc' = "transactions_loaded"
                           /\ transactions_df' = sheet
                           /\ UNCHANGED <<log, escaped>>
                      ELSE Fail /\ UNCHANGED transactions_df
    /\ UNCHANGED <<scenario, session_vars, provider_vars, reconcile_vars, shape_vars, sheet,
                   written, categorized_transactions, provider_calls,
                   reconcile_calls, updated_df, sheet_writes>>

\* categorizer.categorize_transactions(categories_data, transactions_data),
\* transactions_data being every row of transactions_df
CategorizeTransactions ==
    /\ scenario = "main" /\ pc = "transactions_loaded"
    /\ LET r == LegacyCategorize(transactions_df, backend)
       IN  /\ provider_calls' = r.sent
           /\ IF r.kind = "raise"
              THEN Fail /\ UNCHANGED categorized_transactions
              ELSE /\ pc' = "categorized"
                   /\ categorized_transactions' = r.value
                   /\ UNCHANGED <<log, escaped>>
    /\ UNCHANGED <<scenario, session_vars, provider_vars, reconcile_vars, shape_vars, sheet,
                   written, transactions_df, reconcile_calls, updated_df,
                   sheet_writes,
                   client_vars>>

\* `if categorized_transactions:` taken: prepare_categorized_data_for_sheet
PrepareData ==
    /\ scenario = "main" /\ pc = "categorized"
    /\ Truthy(categorized_transactions)
    /\ reconcile_calls' = reconcile_calls + 1
    /\ LET r == LegacyReconcile(transactions_df, has_description_column,
                                categorized_transactions, result_keys)
       IN  IF r.kind = "raise"
           THEN Fail /\ UNCHANGED updated_df
           ELSE /\ pc' = "reconciled"
                /\ updated_df' = r.rows
                /\ log' = log \cup (IF r.warned > 0
                                     THEN {"could_not_be_categorized"} ELSE {})
                /\ UNCHANGED escaped
    /\ UNCHANGED <<scenario, session_vars, provider_vars, reconcile_vars, shape_vars, sheet,
                   written, transactions_df, categorized_transactions,
                   provider_calls, sheet_writes,
                   client_vars>>

\* as NoneCategorized, the rows read written back all the same
NoneCategorized_WritesBack ==
    /\ scenario = "main" /\ pc = "categorized"
    /\ ~Truthy(categorized_transactions)
    /\ pc' = "done"
    /\ log' = log \cup {"no_transactions_categorized"}
    /\ ClientStep("update", UpdateSheetRange(service, TRUE, "ok"), TRUE, "ok")
    /\ written' = transactions_df
    /\ sheet_writes' = sheet_writes + 1
    /\ UNCHANGED <<scenario, session_vars, provider_vars, reconcile_vars, shape_vars,
                   sheet, transactions_df, categorized_transactions,
                   provider_calls, reconcile_calls, updated_df, escaped>>

\* the else branch: logger.warning("No transactions were categorized")
NoneCategorized ==
    /\ scenario = "main" /\ pc = "categorized"
    /\ ~Truthy(categorized_transactions)
    /\ pc' = "done"
    /\ log' = log \cup {"no_transactions_categorized"}
    /\ UNCHANGED <<scenario, session_vars, provider_vars, reconcile_vars, shape_vars, sheet,
                   written, transactions_df, categorized_transactions,
                   provider_calls, reconcile_calls, updated_df, sheet_writes,
                   escaped,
                   client_vars>>

\* google_client.update_sheet_range(..., df=updated_df)
UpdateSheet ==
    /\ scenario = "main" /\ pc = "reconciled"
    /\ \E init_ok \in BOOLEAN, api \in StoreOutcomes :
          LET r == UpdateSheetRange(service, init_ok, api)
          IN  /\ ClientStep("update", r, init_ok, api)
              /\ IF r.kind = "return"
                 THEN /\ pc' = "done"
                      /\ written' = [i \in 1..Len(updated_df) |-> updated_df[i].desc]
                      /\ sheet_writes' = sheet_writes + 1
                      /\ log' = log \cup {"updated"}
                      /\ UNCHANGED escaped
                 ELSE Fail /\ UNCHANGED <<written, sheet_writes>>
    /\ UNCHANGED <<scenario, session_vars, provider_vars, reconcile_vars, shape_vars, sheet,
                   transactions_df, categorized_transactions, provider_calls,
                   reconcile_calls, updated_df>>

(* Calls of one GoogleSheetsClient *)

CallExport ==
    /\ scenario = "client" /\ client_calls < MaxCalls
    /\ \E init_ok \in BOOLEAN, api \in StoreOutcomes :
          ClientStep("export", ExportSheetRange(service, init_ok, api), init_ok, api)
    /\ UNCHANGED <<scenario, session_vars, provider_vars, reconcile_vars, shape_vars, main_vars>>

CallUpdate ==
    /\ scenario = "client" /\ client_calls < MaxCalls
    /\ \E init_ok \in BOOLEAN, api \in StoreOutcomes :
          ClientStep("update", UpdateSheetRange(service, init_ok, api), init_ok, api)
    /\ UNCHANGED <<scenario, session_vars, provider_vars, reconcile_vars, shape_vars, main_vars>>

(* Calls of one provider object *)

CallAgain ==
    /\ scenario = "session" /\ Len(p_calls) < MaxSession
    /\ \E batch \in SessionBatches, env \in SessionBackends :
          LET r == CategorizeOn(p_class, p_self, batch, env)
          IN  /\ p_self' = r.self
              /\ p_calls' = Append(p_calls, [batch |-> batch, env |-> env,
                                             outcome |-> r.outcome,
                                             self_before |-> p_self,
                                             batch_after |-> r.batch])
    /\ UNCHANGED <<scenario, p_class, provider_vars, reconcile_vars, shape_vars,
                   main_vars, client_vars>>

Next ==
    \/ CallTransactionCategorizer
    \/ CallOpenAI
    \/ CallAnthropic
    \/ PrepareDataPrep
    \/ PrepareLegacy
    \/ LoadCategories
    \/ LoadTransactions
    \/ CategorizeTransactions
    \/ PrepareData
    \/ NoneCategorized
    \/ UpdateSheet
    \/ CallExport
    \/ CallUpdate
    \/ CallAgain

Spec == Init /\ [][Next]_vars

----------------------------------------------------------------------------
(* Properties *)

Range(s) == {s[i] : i \in DOMAIN s}

Done(c) == outcome[c].kind # "pending"
Prepared(f) == r_outcome[f].kind # "pending"

\* the code's own notion of a parseable response: json.loads accepts the
\* text once its surrounding whitespace is stripped
ParsesAsJson(text) == json_loads(Strip(text)).ok
ParsesAsJsonArray(text) ==
    json_loads(Strip(text)).ok /\ json_loads(Strip(text)).val.t = "list"

NonEmptyList(v) == v.t = "list" /\ v.items # <<>>

\* the descriptions of original rows that two or more result records carry
DuplicatedDescriptions(rows, results) ==
    {d \in Range(rows) : Len(MatchesOf(d, RecordIds(results))) >= 2}

\* C1: every call of the reconciliation stage (either function named
\* prepare_categorized_data_for_sheet) with a non-empty result list that
\* returns normally returns as many rows as the original table has.
C1_RowCountPreserved ==
    \A f \in Functions :
        (Prepared(f) /\ NonEmptyList(r_results) /\ r_outcome[f].kind = "return")
            => Len(r_outcome[f].rows) = Len(r_transactions)

\* C1 of utils/data_prep.py's function alone: it holds there.
C1_DataPrepRowCountPreserved ==
    (Prepared("data_prep") /\ NonEmptyList(r_results)
        /\ r_outcome["data_prep"].kind = "return")
        => Len(r_outcome["data_prep"].rows) = Len(r_transactions)

\* C2: when two or more result records carry the description of an original
\* row (in a table that has the description column, the records keyed as
\* the prompt asks), utils/data_prep.py's reconciliation raises, and the
\* error names the duplicated descriptions.
C2_DuplicateRejectedAndNamed ==
    (Prepared("data_prep") /\ IsRecordList(r_results)
        /\ has_description_column /\ result_keys = "underscore"
        /\ DuplicatedDescriptions(r_transactions, r_results) # {})
        => /\ r_outcome["data_prep"].kind = "raise"
           /\ r_outcome["data_prep"].named =
                  DuplicatedDescriptions(r_transactions, r_results)

\* C2 without the naming: the call does raise.
C2_DuplicateRejected ==
    (Prepared("data_prep") /\ IsRecordList(r_results)
        /\ DuplicatedDescriptions(r_transactions, r_results) # {})
        => r_outcome["data_prep"].kind = "raise"

\* C3: for a non-empty batch, when the backend's text does not parse as
\* JSON (after the code's whitespace strip), categorize_transactions of
\* every provider class returns the empty list and does not raise.
C3_UnparseableGivesEmpty ==
    \A c \in Classes :
        (Done(c) /\ transactions_data # <<>> /\ backend.fault = "none"
            /\ ~ParsesAsJson(backend.text))
            => outcome[c].kind = "return" /\ outcome[c].value = EmptyList

C3_Witness ==
    /\ \A c \in Classes : Done(c)
    /\ transactions_data # <<>>
    /\ backend.fault = "none"
    /\ ~ParsesAsJson(backend.text)
    /\ backend.text # <<>>

\* C4: for a non-empty batch, when the network call raises,
\* categorize_transactions of every provider class returns the empty list
\* and does not raise; the run of main() that made the call goes on to its
\* end without an error.
C4_TransportFaultGivesEmpty ==
    /\ \A c \in Classes :
          (Done(c) /\ transactions_data # <<>> /\ backend.fault = "send")
              => outcome[c].kind = "return" /\ outcome[c].value = EmptyList
    /\ (scenario = "main" /\ backend.fault = "send" /\ transactions_df # <<>>
            /\ pc = "done" /\ provider_calls # <<>>)
          => /\ categorized_transactions = EmptyList
             /\ ~escaped
             /\ "pipeline_error" \notin log

C4_Witness ==
    /\ \A c \in Classes : Done(c)
    /\ transactions_data # <<>>
    /\ backend.fault = "send"

\* the provider gave no results: the empty list, or None
NoResults(v) == v = EmptyList \/ v = None

\* C5: for a non-empty batch, a response text that is not a JSON array
\* (no JSON at all, or a JSON object, number or null) makes
\* categorize_transactions return no results (the empty list; None, which
\* null parses to, is let pass as empty here), so that every non-empty
\* value it returns is an array.
C5_NonArrayGivesEmpty ==
    \A c \in Classes :
        (Done(c) /\ transactions_data # <<>> /\ backend.fault = "none"
            /\ ~ParsesAsJsonArray(backend.text))
            => outcome[c].kind = "return" /\ NoResults(outcome[c].value)

\* C6: called with an empty batch, categorize_transactions of every provider
\* class returns the no-work marker (None) without invoking the backend
\* (stated of a backend that would answer, were it asked).
C6_EmptyBatchNoCall ==
    \A c \in Classes :
        (Done(c) /\ transactions_data = <<>> /\ backend.fault = "none")
            => outcome[c] = Return(None, <<>>)

\* C7 as stated: in a call with a non-empty batch the backend is invoked
\* exactly once.
C7_ExactlyOnce ==
    \A c \in Classes :
        (Done(c) /\ transactions_data # <<>>) => Len(outcome[c].sent) = 1

\* C7 as amended: in a call with a non-empty batch the backend is invoked at
\* most once (no second attempt after a parse failure or a transport fault);
\* exactly once when the request is built, and not at all when building the
\* request raises.
C7_AtMostOnce ==
    \A c \in Classes :
        (Done(c) /\ transactions_data # <<>>)
            => /\ Len(outcome[c].sent) <= 1
               /\ backend.fault # "build" => outcome[c].sent = <<transactions_data>>
               /\ backend.fault = "build" => outcome[c].sent = <<>>

C7_Witness ==
    /\ \A c \in Classes : Done(c) /\ Len(outcome[c].sent) = 1
    /\ transactions_data # <<>>
    /\ backend.fault = "none"
    /\ ~ParsesAsJson(backend.text)

\* C8: on the same batch and the same backend outcome the OpenAI and the
\* Anthropic class end the same way: both raise, or both return the same
\* value.
C8_VariantsAgree ==
    (Done("OpenAITransactionCategorizer") /\ Done("AnthropicTransactionCategorizer"))
        => /\ outcome["OpenAITransactionCategorizer"].kind
                = outcome["AnthropicTransactionCategorizer"].kind
           /\ outcome["OpenAITransactionCategorizer"].value
                = outcome["AnthropicTransactionCategorizer"].value

\* C9: when the transactions hold a description more than once, main()
\* submits as many descriptions to the provider as there are distinct ones.
C9_DistinctSubmitted ==
    (scenario = "main" /\ provider_calls # <<>>
        /\ Cardinality(Range(transactions_df)) < Len(transactions_df))
        => Len(provider_calls[1]) = Cardinality(Range(transactions_df))

\* C10: when the provider returned no results to main(), the run ends
\* without an exception: the warning is logged, no error is, reconciliation
\* is not called and nothing is written (no predicted label is produced).
C10_NoResultsNoRaise ==
    (scenario = "main" /\ provider_calls # <<>> /\ pc \in {"reconciled", "done"}
        /\ NoResults(categorized_transactions))
        => /\ pc = "done"
           /\ ~escaped
           /\ "no_transactions_categorized" \in log
           /\ "pipeline_error" \notin log
           /\ reconcile_calls = 0
           /\ updated_df = <<>>
           /\ sheet_writes = 0

C10_Witness ==
    /\ scenario = "main"
    /\ pc = "done"
    /\ provider_calls # <<>>
    /\ transactions_df # <<>>
    /\ categorized_transactions = EmptyList
    /\ "no_transactions_categorized" \in log

\* C11: a failure while the batch is categorized or reconciled (the provider
\* raises, or the reconciliation raises) does not end the run of main(): the
\* run goes on after it, to the batches that follow.
C11_FailedBatchDoesNotEndRun ==
    [][(scenario = "main" /\ pc \in {"transactions_loaded", "categorized"}
            /\ "pipeline_error" \in log')
        => pc' # "done"]_vars

\* the latest export_/update_sheet_range call met a failure: initialization
\* was needed and failed, or the Sheets API raised
StoreFailed ==
    /\ last_call.op # "none"
    /\ \/ (last_call.service_before = NoService /\ ~last_call.init_ok)
       \/ last_call.api # "ok"

\* C12: a failed read or write of the store is re-raised by
\* export_sheet_range / update_sheet_range; in a run of main() the run ends
\* at that call with the exception reported by main()'s handler, and no
\* later pipeline step is made: no provider call and no reconciliation
\* after a failed read, no recorded write after a failed write.
C12_StoreFailureHaltsRun ==
    /\ StoreFailed => last_call.kind = "raise"
    /\ (scenario = "main" /\ StoreFailed)
          => /\ pc = "done"
             /\ "pipeline_error" \in log
             /\ "updated" \notin log
             /\ sheet_writes = 0 /\ written = <<>>
             /\ last_call.op = "export"
                   => /\ provider_calls = <<>>
                      /\ categorized_transactions = None
                      /\ reconcile_calls = 0
                      /\ updated_df = <<>>
             /\ client_calls = 1 => transactions_df = <<>>

C12_Witness ==
    /\ scenario = "main"
    /\ client_calls = 2
    /\ sheet # <<>>
    /\ last_call.op = "export"
    /\ last_call.api = "HttpError"
    /\ last_call.kind = "raise"
    /\ pc = "done"

\* a text without its surrounding whitespace: from its first to its last
\* character that is no whitespace
Trimmed(t) ==
    LET solid == {i \in 1..Len(t) : t[i] \notin Whitespace}
    IN  IF solid = {} THEN <<>>
        ELSE SubSeq(t, CHOOSE i \in solid : \A j \in solid : i <= j,
                       CHOOSE i \in solid : \A j \in solid : i >= j)

\* C13: in the table utils/data_prep.py's reconciliation returns, every row
\* whose description matches a result record carries as predicted label the
\* record's category trimmed, then ": ", then its subcategory trimmed
\* ("F" and " G " give "F: G").
C13_PredictedLabelTrimmed ==
    (Prepared("data_prep") /\ r_outcome["data_prep"].kind = "return")
        => \A i \in 1..Len(r_outcome["data_prep"].rows) :
              LET row == r_outcome["data_prep"].rows[i]
                  matching == {k \in 1..Len(r_results.items) :
                                  RecordOf(r_results.items[k].id).desc = row.desc}
              IN  matching # {}
                    => \E k \in matching :
                          row.predicted =
                              Trimmed(RecordOf(r_results.items[k].id).cat)
                                  \o <<":", " ">>
                                  \o Trimmed(RecordOf(r_results.items[k].id).sub)

C13_Witness ==
    /\ Prepared("data_prep")
    /\ r_outcome["data_prep"].kind = "return"
    /\ \E i \in 1..Len(r_outcome["data_prep"].rows) :
          /\ r_outcome["data_prep"].rows[i].src = "o1"
          /\ RecordOf("o1").sub = <<" ", "G", " ">>
          /\ r_outcome["data_prep"].rows[i].predicted = <<"F", ":", " ", "G">>

\* the rows of a returned table whose description no result record carries
Unmatched(rows, results) ==
    {i \in 1..Len(rows) : MatchesOf(rows[i].desc, RecordIds(results)) = <<>>}

\* C14: utils/data_prep.py's reconciliation of a table with its description
\* column and a non-empty list of records keyed as the prompt asks, no two
\* of which carry the description of an original row, returns: the output
\* has the original rows, each once and in order (rows sharing a
\* description included), a row that no record matches has a null predicted
\* label, and the rows without a label are only counted in a warning.
C14_LeftJoinWarnsOnly ==
    (Prepared("data_prep") /\ IsRecordList(r_results)
        /\ has_description_column /\ result_keys = "underscore"
        /\ DuplicatedDescriptions(r_transactions, r_results) = {})
        => LET out == r_outcome["data_prep"]
           IN  /\ out.kind = "return"
               /\ [i \in 1..Len(out.rows) |-> out.rows[i].desc] = r_transactions
               /\ \A i \in Unmatched(out.rows, r_results) : out.rows[i].predicted = NaN
               /\ \A i \in (1..Len(out.rows)) \ Unmatched(out.rows, r_results) :
                     out.rows[i].predicted # NaN
               /\ out.warned = Cardinality(Unmatched(out.rows, r_results))

C14_Witness ==
    /\ Prepared("data_prep")
    /\ r_outcome["data_prep"].kind = "return"
    /\ Len(r_transactions) = 2
    /\ r_transactions[1] = r_transactions[2]
    /\ r_outcome["data_prep"].warned = 2
    /\ Len(r_outcome["data_prep"].rows) = 2

\* the object literals of a text, in the order they occur in it
ObjectsIn(text) == SelectSeq(text, LAMBDA ch : ch \in ObjectLiterals)

\* a text that holds nothing but one pair of brackets, separators,
\* whitespace and object literals: no number, null or array within the array
OnlyRecords(text) ==
    /\ \A i \in 1..Len(text) : text[i] \in ObjectLiterals \cup Whitespace \cup {"[", "]", ","}
    /\ Cardinality({i \in 1..Len(text) : text[i] = "["}) = 1
    /\ Cardinality({i \in 1..Len(text) : text[i] = "]"}) = 1

\* value is the array that text, trimmed, denotes
IsArrayOf(value, text) ==
    /\ value = json_loads(Trimmed(text)).val
    /\ value.t = "list"
    /\ OnlyRecords(text)
          => /\ Len(value.items) = Len(ObjectsIn(text))
             /\ \A i \in 1..Len(value.items) : value.items[i] = JObject(ObjectsIn(text)[i])

\* C15: when the backend answers a non-empty batch with a text that, trimmed,
\* is a JSON array, categorize_transactions of every class returns that
\* array: as many records as the text holds, in its order, each the record
\* written there; so does the call main() makes.
C15_ReturnsParsedArray ==
    /\ \A c \in Classes :
          (Done(c) /\ transactions_data # <<>> /\ backend.fault = "none"
              /\ json_loads(Trimmed(backend.text)).ok
              /\ json_loads(Trimmed(backend.text)).val.t = "list")
              => /\ outcome[c].kind = "return"
                 /\ IsArrayOf(outcome[c].value, backend.text)
    /\ (scenario = "main" /\ provider_calls # <<>> /\ backend.fault = "none"
            /\ json_loads(Trimmed(backend.text)).ok
            /\ json_loads(Trimmed(backend.text)).val.t = "list")
          => IsArrayOf(categorized_transactions, backend.text)

C15_Witness ==
    /\ scenario = "main"
    /\ provider_calls # <<>>
    /\ transactions_df # <<>>
    /\ backend = Answer(<<"\f", " ", "[", "o2", ",", " ", "o1", "]", " ", "\f">>)
    /\ categorized_transactions = JList(<<JObject("o2"), JObject("o1")>>)

UpdateCalled == last_call.op = "update"

\* C17: in a run of main() update_sheet_range is called at most once (it is
\* the third and last call on the client) and the range is written at most
\* once; it is called only when both reads returned, the provider gave a
\* non-empty list and the reconciliation of it returned, the rows written
\* being the reconciled ones; a run that ended without the call (a step
\* failed, or there were no results) wrote nothing.
C17_WriteOnceAfterAllSteps ==
    scenario = "main"
        => /\ client_calls <= 3
           /\ sheet_writes <= 1
           /\ (sheet_writes = 1 \/ written # <<>>)
                 => (UpdateCalled /\ last_call.kind = "return" /\ sheet_writes = 1)
           /\ UpdateCalled
                 => /\ client_calls = 3
                    /\ pc = "done"
                    /\ transactions_df = sheet
                    /\ provider_calls # <<>>
                    /\ NonEmptyList(categorized_transactions)
                    /\ reconcile_calls = 1
                    /\ "no_transactions_categorized" \notin log
                    /\ LET r == LegacyReconcile(transactions_df, has_description_column,
                                                categorized_transactions, result_keys)
                       IN  r.kind = "return" /\ updated_df = r.rows
           /\ (pc = "done" /\ ~UpdateCalled)
                 => (sheet_writes = 0 /\ written = <<>> /\ "updated" \notin log)

C17_Witness ==
    /\ scenario = "main"
    /\ pc = "done"
    /\ UpdateCalled
    /\ sheet_writes = 1
    /\ written # <<>>
    /\ "updated" \in log

\* C18: over the export_sheet_range and update_sheet_range calls made on
\* one GoogleSheetsClient, the service is built and cached at most once; a
\* call that finds it cached attempts no initialization and leaves it; a
\* call that finds none attempts one, and when that fails the call raises
\* and the service stays unset, so that the call after it attempts again.
C18_ServiceBuiltOnceAndCached ==
    /\ service_builds <= 1
    /\ (service = TheService) <=> (service_builds = 1)
    /\ service = NoService => init_attempts = client_calls
    /\ init_attempts <= client_calls
    /\ last_call.op # "none"
          => /\ last_call.service_before = TheService
                   => /\ last_call.attempted = 0 /\ last_call.built = 0
                      /\ service = TheService
             /\ last_call.service_before = NoService
                   => /\ last_call.attempted = 1
                      /\ last_call.init_ok
                            => (last_call.built = 1 /\ service = TheService)
                      /\ ~last_call.init_ok
                            => /\ last_call.kind = "raise"
                               /\ ~last_call.reached
                               /\ last_call.built = 0
                               /\ service = NoService

C18_Witness ==
    /\ scenario = "client"
    /\ client_calls = 3
    /\ init_attempts = 2
    /\ service_builds = 1
    /\ last_call.service_before = TheService
    /\ last_call.attempted = 0
    /\ last_call.kind = "return"

====
